---------------------------- MODULE Spec2Model ----------------------------
(***************************************************************************)
(* A model of tqftpserv (src/tqftpserv.c): the TFTP-over-QRTR server loop, *)
(* the reader and writer handlers, RRQ/WRQ setup and the control-channel   *)
(* handling, together with the file-descriptor table and the files the     *)
(* server touches.                                                         *)
(***************************************************************************)
EXTENDS Integers, Sequences, FiniteSets, TLC

\* ------------------------------------------------------------ constants

OP_RRQ == 1
OP_WRQ == 2
OP_DATA == 3
OP_ACK == 4
OP_ERROR == 5
OP_OACK == 6
ERROR_END_OF_TRANSFER == 9

\* handle_rrq/handle_wrq defaults
DefaultBlksize == 512
DefaultTimeoutms == 1000
\* handle_writer: char buf[516], and the literal of `payload == 512`
WriterBuf == 516
WriterFull == 512
\* uint16_t block, last
U16 == 65536
\* libqrtr: the control port (0xfffffffe, written as the 32-bit value it is
\* the pattern of) and the control message types main looks at
QRTR_PORT_CTRL == -2
QRTR_TYPE_HELLO == 2
QRTR_TYPE_BYE == 3
QRTR_TYPE_DEL_CLIENT == 6
\* -EINVAL
EINVAL == 22
\* the service socket is the first descriptor after stdin, stdout, stderr
ServiceFd == 3

\* ---------------------------------------------------------------- bounds

\* largest file descriptor number the process may hold
MaxFd == 8
\* loop iterations (returns from select) explored
MaxSteps == 3
\* RRQ/WRQ setups explored
MaxRequests == 2

VARIABLES
    readers,     \* static struct list_head readers: sequence of clients
    writers,     \* static struct list_head writers
    fdt,         \* the process's descriptor table
    fs,          \* the host files behind translate_open
    pc,          \* position of main's loop
    rfds,        \* the descriptors select reported readable
    cursor,      \* position of the list walk under way (1: the first entry)
    trace,       \* history: every datagram received and sent, in order
    ev,          \* history: what the last step did
    badClose,    \* history: close() calls on a descriptor that was not open
    reaped,      \* history: the transfers freed since the last select, in order
    nreq,        \* history: RRQ/WRQ setups so far (names each transfer)
    steps,       \* history: returns from select so far
    charSigned,  \* build: whether plain char is signed
    env          \* the behaviour profile of the peers

vars == <<readers, writers, fdt, fs, pc, rfds, cursor, trace, ev, badClose, reaped, nreq,
          steps, charSigned, env>>

\* ----------------------------------------------------------- byte strings

\* A byte string is kept as its runs: a sequence of <<v, n>>, each standing for
\* the n > 0 bytes v, v+1, ... (modulo 256), no run continuing the one before
\* it.  Two byte strings are equal exactly when their runs are.
Bytes(n, v) == IF n <= 0 THEN <<>> ELSE << <<v % 256, n>> >>

RECURSIVE BLen(_)
BLen(s) == IF s = <<>> THEN 0 ELSE Head(s)[2] + BLen(Tail(s))

Continues(r1, r2) == r2[1] = (r1[1] + r1[2]) % 256

BCat(a, b) ==
    IF a = <<>> THEN b
    ELSE IF b = <<>> THEN a
    ELSE IF Continues(a[Len(a)], b[1])
    THEN SubSeq(a, 1, Len(a) - 1)
         \o << <<a[Len(a)][1], a[Len(a)][2] + b[1][2]>> >>
         \o Tail(b)
    ELSE a \o b

\* the first n bytes
RECURSIVE BTake(_, _)
BTake(s, n) ==
    IF n <= 0 \/ s = <<>> THEN <<>>
    ELSE IF n < Head(s)[2] THEN << <<Head(s)[1], n>> >>
    ELSE <<Head(s)>> \o BTake(Tail(s), n - Head(s)[2])

\* all but the first n bytes
RECURSIVE BDrop(_, _)
BDrop(s, n) ==
    IF n <= 0 \/ s = <<>> THEN s
    ELSE IF n < Head(s)[2]
    THEN << <<(Head(s)[1] + n) % 256, Head(s)[2] - n>> >> \o Tail(s)
    ELSE BDrop(Tail(s), n - Head(s)[2])

RECURSIVE BConcat(_)
BConcat(ss) == IF ss = <<>> THEN <<>> ELSE BCat(Head(ss), BConcat(Tail(ss)))

RECURSIVE SumLen(_)
SumLen(ss) == IF ss = <<>> THEN 0 ELSE BLen(Head(ss)) + SumLen(Tail(ss))

\* ------------------------------------------------------------- packets

NoOpts == <<>>

Pkt(op, block, data, msg, opts) ==
    [op |-> op, block |-> block, data |-> data, msg |-> msg, opts |-> opts]

DataPkt(block, data) == Pkt(OP_DATA, block, data, "", NoOpts)
AckPkt(block) == Pkt(OP_ACK, block, <<>>, "", NoOpts)
ErrorPkt(code, msg) == Pkt(OP_ERROR, code, <<>>, msg, NoOpts)
OackPkt(opts) == Pkt(OP_OACK, 0, <<>>, "", opts)

\* `buf[2] << 8 | buf[3]` read from a char buffer into a uint16_t: where plain
\* char is signed, a low byte >= 0x80 sign-extends and sets the high byte.
Decode16(b, signed) ==
    IF signed /\ (b % 256) >= 128 THEN (U16 - 256) + (b % 256) ELSE b % U16


\* ---------------------------------------------------- descriptors, files

FdRange == 0..MaxFd
FileNames == {"a", "b"}

FreeFd == [kind |-> "free", name |-> "", pos |-> 0, wr |-> FALSE, peer |-> <<0, 0>>]
StdFd == [kind |-> "std", name |-> "", pos |-> 0, wr |-> FALSE, peer |-> <<0, 0>>]
SockFd == [kind |-> "sock", name |-> "", pos |-> 0, wr |-> FALSE, peer |-> <<0, 0>>]
FileFd(name, wr) ==
    [kind |-> "file", name |-> name, pos |-> 0, wr |-> wr, peer |-> <<0, 0>>]

IsOpen(t, fd) == fd \in FdRange /\ t[fd].kind # "free"

\* open()/socket() return the lowest descriptor not in use, -1 when none is left
LowestFree(t) ==
    IF \E f \in FdRange : t[f].kind = "free"
    THEN CHOOSE f \in FdRange :
            t[f].kind = "free" /\ \A g \in FdRange : g < f => t[g].kind # "free"
    ELSE -1

\* The world the server's functions act on, as one record.
World ==
    [readers |-> readers, writers |-> writers, fdt |-> fdt, fs |-> fs,
     trace |-> trace, badClose |-> badClose]

Tx(w, x, sock, pkt, off) ==
    [w EXCEPT !.trace = Append(@, [x |-> x, dir |-> "tx", sock |-> sock,
                                   src |-> <<0, 0>>, pkt |-> pkt, off |-> off])]

Rx(w, x, sock, src, pkt) ==
    [w EXCEPT !.trace = Append(@, [x |-> x, dir |-> "rx", sock |-> sock,
                                   src |-> src, pkt |-> pkt, off |-> -1])]

\* close(2): releases an open descriptor; on one that is not open it fails
\* (EBADF), which the history counts.
Close(w, fd) ==
    IF IsOpen(w.fdt, fd)
    THEN [w EXCEPT !.fdt[fd] = FreeFd]
    ELSE [w EXCEPT !.badClose = @ + 1]

\* qrtr_open(0): a new socket, or -1
qrtr_open(w, fail) ==
    LET fd == IF fail THEN -1 ELSE LowestFree(w.fdt)
    IN  [fd |-> fd,
         w |-> IF fd < 0 THEN w ELSE [w EXCEPT !.fdt[fd] = SockFd]]

\* connect(sock, sq): the socket's peer, to which send() then goes
connect(w, sock, sq) == [w EXCEPT !.fdt[sock].peer = sq]

\* translate_open(filename, flags): O_RDONLY needs the file to exist;
\* O_WRONLY | O_CREAT creates it when missing and keeps what it holds.
translate_open(w, name, wr, fail) ==
    LET fd == IF fail \/ name \notin FileNames \/ (~wr /\ ~w.fs[name].there)
              THEN -1 ELSE LowestFree(w.fdt)
    IN  [fd |-> fd,
         w |-> IF fd < 0 THEN w
               ELSE [w EXCEPT !.fdt[fd] = FileFd(name, wr),
                              !.fs[name].there = TRUE]]

\* pread(fd, p, count, offset): the bytes read, or "fail" (EBADF on a descriptor
\* not open for reading, or an I/O error)
pread(w, fd, count, offset, ioFail) ==
    IF ioFail \/ ~IsOpen(w.fdt, fd) \/ w.fdt[fd].kind # "file" \/ w.fdt[fd].wr
    THEN [ok |-> FALSE, data |-> <<>>]
    ELSE LET d == w.fs[w.fdt[fd].name].data
         IN  [ok |-> TRUE,
              data |-> BTake(BDrop(d, offset), count)]

\* write(fd, buf, count) at the descriptor's position, which it advances (a
\* position never lies past the end of its file here: nothing truncates)
write(w, fd, bytes, ioFail) ==
    IF ioFail \/ ~IsOpen(w.fdt, fd) \/ w.fdt[fd].kind # "file" \/ ~w.fdt[fd].wr
    THEN [ret |-> -1, w |-> w]
    ELSE LET name == w.fdt[fd].name
             pos == w.fdt[fd].pos
             old == w.fs[name].data
             n == BLen(bytes)
             new == BCat(BCat(BTake(old, pos), bytes), BDrop(old, pos + n))
         IN  [ret |-> n,
              w |-> [w EXCEPT !.fs[name].data = new, !.fdt[fd].pos = pos + n]]

\* ------------------------------------------------------- packet senders

\* tftp_send_data: n is send()'s return (4 + payload), or negative
tftp_send_data(w, client, block, offset, response_size, ioFail) ==
    LET r == pread(w, client.fd, client.blksize, offset, ioFail)
        len == BLen(r.data)
        send_len == IF response_size # 0 THEN 4 + response_size ELSE 4 + len
    IN  IF ~r.ok THEN [n |-> -1, w |-> w]
        ELSE IF response_size # 0 /\ send_len > 4 + len
        THEN [n |-> -EINVAL, w |-> w]
        ELSE [n |-> send_len,
              w |-> Tx(w, client.x, client.sock,
                       DataPkt(block % U16, BTake(r.data, send_len - 4)), offset)]

tftp_send_ack(w, client, block) ==
    Tx(w, client.x, client.sock, AckPkt(block % U16), -1)

tftp_send_error_NoSend(w, x, sock, code, msg) == w
tftp_send_error(w, x, sock, code, msg) ==
    Tx(w, x, sock, ErrorPkt(code, msg), -1)

\* client_close_and_free: list_del, close(sock), close(fd), free
Without(list, client) == SelectSeq(list, LAMBDA c : c.x # client.x)

client_close_and_free_NoListDel(w, client) ==
    Close(Close(w, client.sock), client.fd)
client_close_and_free(w, client) ==
    LET w1 == [w EXCEPT !.readers = Without(@, client),
                        !.writers = Without(@, client)]
    IN  Close(Close(w1, client.sock), client.fd)


\* ----------------------------------------------------- option handling

Defaults ==
    [blksize |-> DefaultBlksize, tsize |-> -1, wsize |-> 0,
     timeoutms |-> DefaultTimeoutms, rsize |-> 0, seek |-> 0]

KnownOptions == {"blksize", "timeoutms", "tsize", "rsize", "wsize", "seek"}

\* parse_options: each (name, value) pair in order; a value is the number atoi
\* makes of the option's text; an unknown name changes nothing
RECURSIVE parse_options(_, _)
parse_options(opts, o) ==
    IF opts = <<>> THEN o
    ELSE LET name == Head(opts)[1]
             value == Head(opts)[2]
         IN  parse_options(Tail(opts),
                CASE name = "blksize" -> [o EXCEPT !.blksize = value]
                  [] name = "timeoutms" -> [o EXCEPT !.timeoutms = value]
                  [] name = "tsize" -> [o EXCEPT !.tsize = value]
                  [] name = "rsize" -> [o EXCEPT !.rsize = value]
                  [] name = "wsize" -> [o EXCEPT !.wsize = value]
                  [] name = "seek" -> [o EXCEPT !.seek = value]
                  [] OTHER -> o)

\* A pointer argument: NULL, or the address of a value
NULL == <<>>
Ptr(v) == <<v>>

Opt(name, ptr) == IF ptr = NULL THEN <<>> ELSE << <<name, ptr[1]>> >>

\* tftp_send_oack: the options written, in the order the code writes them
tftp_send_oack(w, x, sock, blocksize, tsize, wsize, timeoutms, rsize, seek) ==
    Tx(w, x, sock,
       OackPkt(Opt("blksize", blocksize)
               \o Opt("timeoutms", timeoutms)
               \o (IF tsize # NULL /\ tsize[1] # -1 THEN Opt("tsize", tsize) ELSE <<>>)
               \o Opt("wsize", wsize)
               \o Opt("rsize", rsize)
               \o Opt("seek", seek)),
       -1)

\* strcasecmp(mode, "octet") == 0
IsOctet(mode) == mode \in {"octet", "OCTET", "Octet"}

NewClient(sq, sock, fd, o, x) ==
    [sq |-> sq, sock |-> sock, fd |-> fd, blksize |-> o.blksize,
     rsize |-> o.rsize, wsize |-> o.wsize, timeoutms |-> o.timeoutms,
     seek |-> o.seek, x |-> x]

SendFirst_AlwaysData(w, client, do_oack, o, tsize) ==
    tftp_send_data(w, client, 1, 0, 0, FALSE).w
SendFirst(w, client, do_oack, o, tsize) ==
    IF do_oack
    THEN tftp_send_oack(w, client.x, client.sock, Ptr(o.blksize),
                        IF tsize # 0 THEN Ptr(tsize) ELSE NULL,
                        IF o.wsize # 0 THEN Ptr(o.wsize) ELSE NULL,
                        Ptr(client.timeoutms),
                        IF o.rsize # 0 THEN Ptr(o.rsize) ELSE NULL,
                        IF o.seek # 0 THEN Ptr(o.seek) ELSE NULL)
    ELSE tftp_send_data(w, client, 1, 0, 0, FALSE).w

\* handle_rrq. x names the request; flt says which calls the system fails.
handle_rrq(w, x, req, sq, flt) ==
    LET do_oack == req.opts # <<>>
        o == parse_options(req.opts, Defaults)
        s == qrtr_open(w, flt = "sock")
        c == [w |-> connect(s.w, s.fd, sq)]
        f == translate_open(c.w, req.filename, FALSE, flt = "open")
        tsize == IF o.tsize # -1 THEN BLen(f.w.fs[req.filename].data) ELSE o.tsize
        client == NewClient(sq, s.fd, f.fd, o, x)
    IN  IF ~IsOctet(req.mode) THEN w
        ELSE IF s.fd < 0 THEN w
        ELSE IF flt = "connect" THEN s.w
        ELSE IF f.fd < 0
        THEN tftp_send_error(c.w, x, s.fd, 1, "file not found")
        ELSE SendFirst([f.w EXCEPT !.readers = Append(@, client)],
                       client, do_oack, o, tsize)

\* handle_wrq
handle_wrq(w, x, req, sq, flt) ==
    LET do_oack == req.opts # <<>>
        o == parse_options(req.opts, Defaults)
        f == translate_open(w, req.filename, TRUE, flt = "open")
        s == qrtr_open(f.w, flt = "sock")
        client == NewClient(sq, s.fd, f.fd, o, x)
    IN  IF ~IsOctet(req.mode) THEN w
        ELSE IF f.fd < 0 THEN w
        ELSE IF s.fd < 0 THEN f.w
        ELSE IF flt = "connect" THEN s.w
        ELSE SendFirst([connect(s.w, s.fd, sq) EXCEPT !.writers = Append(@, client)],
                       client, do_oack, o, o.tsize)

\* ------------------------------------------------------------- handlers

\* handle_reader 440-441, handle_writer 513-514: the datagram is the peer's
FromPeer(client, src) == src[1] = client.sq[1] /\ src[2] = client.sq[2]

\* handle_reader 465: "we've sent enough data for rsize already"
RsizeDone(client, last) == last * client.blksize > client.rsize

\* handle_reader 469: the file offset of the block after `block`
BlockOffset_NoSeek(client, block) == block * client.blksize
BlockOffset(client, block) == client.seek + block * client.blksize

\* handle_reader 472 and 485: the block after `block` passes rsize
Capped(client, block) == (block + 1) * client.blksize > client.rsize

\* handle_reader 456: anything that is not an ACK ends the transfer
NotAck_Never(opcode) == FALSE
NotAck(opcode) == opcode # OP_ACK

\* handle_writer 536: the status after a written block
WriterStatus(payload) == IF BLen(payload) = WriterFull THEN 1 ELSE 0

\* The window loop of handle_reader, from `block` on; iter counts the blocks
\* tried so far, failAt is the try whose pread fails (0: none).  The loop
\* counter is a uint16_t compared with the size_t `last + wsize`: once it has
\* wrapped past 65535 the condition holds for every value it can take, and the
\* loop ends only by a break.  No break can come when no block is capped by
\* rsize (rsize >= 65536 * blksize) and no read fails: the loop then never ends.
RECURSIVE Window(_, _, _, _, _, _)
Window(w, client, last, block, iter, failAt) ==
    IF ~(block < last + client.wsize) THEN [w |-> w, hung |-> FALSE]
    ELSE LET offset == BlockOffset(client, block)
             capped == Capped(client, block)
             response_size == IF capped THEN client.rsize % client.blksize ELSE 0
             r == tftp_send_data(w, client, block + 1, offset, response_size,
                                 failAt = iter + 1)
             next == (block + 1) % U16
         IN  IF r.n < 0 THEN [w |-> r.w, hung |-> FALSE]
             ELSE IF r.n = 0 THEN [w |-> r.w, hung |-> FALSE]
             ELSE IF capped THEN [w |-> r.w, hung |-> FALSE]
             ELSE IF next = 0 /\ client.rsize >= U16 * client.blksize
                     /\ failAt <= iter + 1
             THEN [w |-> r.w, hung |-> TRUE]
             ELSE Window(r.w, client, last, next, iter + 1, failAt)

\* handle_reader: d is what recvfrom returns (d.err: it fails; the history
\* then holds an entry with opcode 0 from nobody)
handle_reader(w, client, d, signed) ==
    LET w1 == Rx(w, client.x, client.sock, d.src, d.pkt)
        opcode == d.pkt.op
        last == Decode16(d.pkt.block, signed)
        win == Window(w1, client, last, last, 0, d.ioFail)
    IN  IF d.err THEN [ret |-> -1, w |-> w1, hung |-> FALSE]
        ELSE IF ~FromPeer(client, d.src) THEN [ret |-> -1, w |-> w1, hung |-> FALSE]
        ELSE IF opcode = OP_ERROR THEN [ret |-> -1, w |-> w1, hung |-> FALSE]
        ELSE IF NotAck(opcode) THEN [ret |-> -1, w |-> w1, hung |-> FALSE]
        ELSE IF RsizeDone(client, last)
        THEN [ret |-> 0, w |-> w1, hung |-> FALSE]
        ELSE [ret |-> 1, w |-> win.w, hung |-> win.hung]

\* handle_writer
handle_writer(w, client, d, signed) ==
    LET w1 == Rx(w, client.x, client.sock, d.src, d.pkt)
        opcode == d.pkt.op
        block == Decode16(d.pkt.block, signed)
        \* recvfrom fills at most sizeof(buf) bytes: 4 of header, the rest payload
        payload == BTake(d.pkt.data, WriterBuf - 4)
        wr == write(w1, client.fd, payload, d.ioFail # 0)
    IN  IF d.err THEN [ret |-> -1, w |-> w1, hung |-> FALSE]
        ELSE IF ~FromPeer(client, d.src) THEN [ret |-> -1, w |-> w1, hung |-> FALSE]
        ELSE IF opcode # OP_DATA
        THEN [ret |-> -1, hung |-> FALSE,
              w |-> tftp_send_error(w1, client.x, client.sock, 4,
                                    "Expected DATA opcode")]
        ELSE IF wr.ret < 0 THEN [ret |-> -1, w |-> wr.w, hung |-> FALSE]
        ELSE [ret |-> WriterStatus(payload),
              w |-> tftp_send_ack(wr.w, client, block), hung |-> FALSE]


\* ------------------------------------------------------------ the peers

\* Transport addresses (sq_node, sq_port) of the peers
PeerA == <<1, 1>>
PeerB == <<1, 2>>
PeerC == <<2, 1>>
\* In a datagram template: "sent by the transfer's own peer"
OwnPeer == <<0, 0>>

NoClient ==
    [sq |-> <<0, 0>>, sock |-> -1, fd |-> -1, blksize |-> 0, rsize |-> 0,
     wsize |-> 0, timeoutms |-> 0, seek |-> 0, x |-> 0]
NoDgram ==
    [err |-> FALSE, src |-> <<0, 0>>, pkt |-> Pkt(0, 0, <<>>, "", NoOpts),
     ioFail |-> 0]
NoReq == [op |-> 0, src |-> <<0, 0>>, filename |-> "", mode |-> "", opts |-> <<>>]
NoCtl == [src |-> <<0, 0>>, type |-> 0, node |-> 0, port |-> 0]

Event(kind, c, d, ret, req, ctl, flt) ==
    [kind |-> kind, c |-> c, d |-> d, ret |-> ret, req |-> req, ctl |-> ctl,
     flt |-> flt]

Req(op, src, filename, mode, opts) ==
    [op |-> op, src |-> src, filename |-> filename, mode |-> mode, opts |-> opts]
From(from, pkt) == [from |-> from, pkt |-> pkt]
Ctl(src, type, node, port) == [src |-> src, type |-> type, node |-> node, port |-> port]

\* A profile bounds what the peers and the system may do in one run.
Profile(reqs, dgrams, ctl, misc, flts, iofail, builds) ==
    [reqs |-> reqs, dgrams |-> dgrams, ctl |-> ctl, misc |-> misc,
     flts |-> flts, iofail |-> iofail, builds |-> builds]

Acks(from, blocks) == { From(from, AckPkt(b)) : b \in blocks }

CtlAddr(node) == <<node, QRTR_PORT_CTRL>>

\* windowed partial reads (rsize not a multiple of blksize, and a multiple),
\* the peer's acknowledgements, a stranger's, and a peer error
EnvRead ==
    Profile({ Req(OP_RRQ, PeerA, "a", "octet",
                  << <<"blksize", 2>>, <<"wsize", 2>>, <<"rsize", 5>>, <<"seek", 1>> >>),
              Req(OP_RRQ, PeerC, "a", "octet",
                  << <<"blksize", 2>>, <<"wsize", 3>>, <<"rsize", 4>> >>) },
            Acks(OwnPeer, {0, 2, 3}) \cup Acks(PeerB, {0})
              \cup { From(OwnPeer, ErrorPkt(ERROR_END_OF_TRANSFER, "EOT")) },
            {}, {}, {"none"}, {0}, {FALSE})

\* a read of more than the file holds
EnvShort ==
    Profile({ Req(OP_RRQ, PeerA, "a", "octet",
                  << <<"blksize", 2>>, <<"rsize", 20>>, <<"wsize", 3>> >>) },
            Acks(OwnPeer, {0, 3}),
            {}, {}, {"none"}, {0, 2}, {FALSE})

\* uploads with and without options: full, short and oversized blocks, a
\* stranger's block, a wrong opcode, a failing write
EnvWrite ==
    Profile({ Req(OP_WRQ, PeerA, "b", "octet", <<>>),
              Req(OP_WRQ, PeerC, "a", "octet", << <<"blksize", 1428>> >>) },
            { From(OwnPeer, DataPkt(1, Bytes(512, 1))),
              From(OwnPeer, DataPkt(2, Bytes(3, 7))),
              From(OwnPeer, DataPkt(1, Bytes(600, 1))),
              From(PeerB, DataPkt(1, Bytes(3, 7))),
              From(OwnPeer, AckPkt(0)) },
            {}, {}, {"none"}, {0, 1}, {FALSE})

\* transfers of two nodes and the control port's events
EnvControl ==
    Profile({ Req(OP_WRQ, PeerA, "b", "octet", <<>>),
              Req(OP_WRQ, PeerC, "b", "octet", <<>>),
              Req(OP_RRQ, PeerA, "a", "octet", <<>>) },
            { From(OwnPeer, DataPkt(1, Bytes(3, 7))) },
            { Ctl(CtlAddr(1), QRTR_TYPE_BYE, 1, 0),
              Ctl(CtlAddr(1), QRTR_TYPE_BYE, 2, 0),
              Ctl(CtlAddr(1), QRTR_TYPE_DEL_CLIENT, 1, 1),
              Ctl(CtlAddr(1), QRTR_TYPE_HELLO, 0, 0) },
            {}, {"none"}, {0}, {FALSE})

\* setup failures and the service socket's other datagrams
EnvSetup ==
    Profile({ Req(OP_RRQ, PeerA, "b", "octet", <<>>),
              Req(OP_RRQ, PeerA, "a", "netascii", <<>>),
              Req(OP_RRQ, PeerA, "a", "OCTET", <<>>),
              Req(OP_WRQ, PeerB, "b", "octet", << <<"tsize", 9>> >>),
              Req(OP_WRQ, PeerB, "zz", "octet", <<>>) },
            Acks(OwnPeer, {1}),
            {}, {"short", "error", "other", "recvfail", "decodefail", "selectfail"},
            {"none", "sock", "connect", "open"}, {0}, {FALSE})

\* requests with every kind of option list
EnvOptions ==
    Profile({ Req(OP_RRQ, PeerA, "a", "octet", << <<"blksize", 2>> >>),
              Req(OP_RRQ, PeerA, "a", "octet",
                  << <<"tsize", 0>>, <<"wsize", 0>>, <<"rsize", 0>>, <<"seek", 0>> >>),
              Req(OP_RRQ, PeerA, "a", "octet", << <<"foo", 1>> >>),
              Req(OP_RRQ, PeerB, "a", "octet",
                  << <<"tsize", 0>>, <<"blksize", 2>>, <<"wsize", 1>>, <<"rsize", 4>>,
                     <<"seek", 1>>, <<"timeoutms", 7>> >>),
              Req(OP_WRQ, PeerB, "b", "octet", << <<"tsize", 9>>, <<"timeoutms", 5>> >>) },
            Acks(OwnPeer, {0}),
            {}, {}, {"none"}, {0}, {FALSE})

\* an upload followed by a download of the same name, blksize 1428
EnvRoundTrip ==
    Profile({ Req(OP_WRQ, PeerA, "b", "octet", << <<"blksize", 1428>> >>),
              Req(OP_RRQ, PeerA, "b", "octet",
                  << <<"blksize", 1428>>, <<"wsize", 1>> >>) },
            { From(OwnPeer, DataPkt(1, Bytes(600, 1))),
              From(OwnPeer, AckPkt(0)), From(OwnPeer, AckPkt(1)) },
            {}, {}, {"none"}, {0}, {FALSE})

\* block numbers with the low byte's top bit set, and the highest one, on both
\* builds
EnvHighBlock ==
    Profile({ Req(OP_WRQ, PeerA, "b", "octet", <<>>),
              Req(OP_RRQ, PeerA, "a", "octet",
                  << <<"blksize", 1>>, <<"wsize", 1>>, <<"rsize", 70000>> >>) },
            { From(OwnPeer, DataPkt(128, Bytes(3, 7))), From(OwnPeer, AckPkt(128)),
              From(OwnPeer, AckPkt(65535)) },
            {}, {}, {"none"}, {0}, BOOLEAN)

\* a read of the whole file (no rsize) in windows of two blocks
EnvFull ==
    Profile({ Req(OP_RRQ, PeerA, "a", "octet",
                  << <<"blksize", 2>>, <<"wsize", 2>> >>) },
            Acks(OwnPeer, {0, 1, 2}),
            {}, {}, {"none"}, {0}, {FALSE})

Envs ==
    { EnvRead, EnvShort, EnvWrite, EnvControl, EnvSetup, EnvOptions, EnvRoundTrip,
      EnvHighBlock, EnvFull }

\* ------------------------------------------------------------- main loop

Init ==
    /\ readers = <<>>
    /\ writers = <<>>
    /\ fdt = [f \in FdRange |->
                IF f < ServiceFd THEN StdFd
                ELSE IF f = ServiceFd THEN SockFd ELSE FreeFd]
    /\ fs = [n \in FileNames |->
                IF n = "a" THEN [there |-> TRUE, data |-> Bytes(7, 10)]
                ELSE [there |-> FALSE, data |-> <<>>]]
    /\ pc = "select"
    /\ rfds = {}
    /\ cursor = 1
    /\ trace = <<>>
    /\ ev = Event("init", NoClient, NoDgram, 0, NoReq, NoCtl, "none")
    /\ badClose = 0
    /\ reaped = <<>>
    /\ nreq = 0
    /\ steps = 0
    /\ env \in Envs
    /\ charSigned \in env.builds

Apply(w) ==
    /\ readers' = w.readers
    /\ writers' = w.writers
    /\ fdt' = w.fdt
    /\ fs' = w.fs
    /\ trace' = w.trace
    /\ badClose' = w.badClose

Socks(list) == { list[i].sock : i \in 1..Len(list) }

\* What can make the service socket readable in this run
ServiceInputs ==
    (nreq < MaxRequests /\ env.reqs # {}) \/ env.ctl # {}
        \/ env.misc \ {"selectfail"} # {}

Readable ==
    (IF ServiceInputs THEN {ServiceFd} ELSE {})
    \cup (IF env.dgrams # {} THEN Socks(writers) \cup Socks(readers) ELSE {})

\* main, lines 577-599: select returns the readable descriptors
Select ==
    /\ pc = "select"
    /\ steps < MaxSteps
    /\ \E r \in SUBSET Readable :
          /\ r # {}
          /\ rfds' = r
    /\ pc' = "writers"
    /\ cursor' = 1
    /\ steps' = steps + 1
    /\ ev' = Event("select", NoClient, NoDgram, 0, NoReq, NoCtl, "none")
    /\ reaped' = <<>>
    /\ UNCHANGED <<readers, writers, fdt, fs, trace, badClose, nreq, charSigned, env>>

\* select fails with an error other than EINTR: break, close(fd), return 0
SelectFails ==
    /\ pc = "select"
    /\ steps < MaxSteps
    /\ "selectfail" \in env.misc
    /\ pc' = "exited"
    /\ rfds' = {}
    /\ cursor' = 1
    /\ steps' = steps + 1
    /\ ev' = Event("selectfail", NoClient, NoDgram, 0, NoReq, NoCtl, "none")
    /\ Apply(Close(World, ServiceFd))
    /\ UNCHANGED <<reaped, nreq, charSigned, env>>

\* The datagrams a transfer socket may deliver to its client's handler
Dgrams(c) ==
    { [err |-> FALSE, src |-> IF t.from = OwnPeer THEN c.sq ELSE t.from,
       pkt |-> t.pkt, ioFail |-> k] : t \in env.dgrams, k \in env.iofail }
    \cup (IF "recvfail" \in env.misc
          THEN { [NoDgram EXCEPT !.err = TRUE] } ELSE {})

\* The entries of `list` at or after the cursor whose socket is in rfds
Ready(list) == { i \in cursor..Len(list) : list[i].sock \in rfds }
First(S) == CHOOSE i \in S : \A j \in S : i <= j

\* main, lines 601-607: the next ready writer is handled, and reaped on ret <= 0
HandleWriter ==
    /\ pc = "writers"
    /\ Ready(writers) # {}
    /\ LET i == First(Ready(writers))
           client == writers[i]
       IN  \E d \in Dgrams(client) :
              LET r == handle_writer(World, client, d, charSigned)
              IN  /\ Apply(IF r.ret <= 0 THEN client_close_and_free(r.w, client)
                           ELSE r.w)
                  /\ cursor' = IF r.ret <= 0 THEN i ELSE i + 1
                  /\ reaped' = IF r.ret <= 0 THEN Append(reaped, client.x) ELSE reaped
                  /\ ev' = Event("writer", client, d, r.ret, NoReq, NoCtl, "none")
    /\ UNCHANGED <<pc, rfds, nreq, steps, charSigned, env>>

WritersDone ==
    /\ pc = "writers"
    /\ Ready(writers) = {}
    /\ pc' = "readers"
    /\ cursor' = 1
    /\ ev' = Event("writersdone", NoClient, NoDgram, 0, NoReq, NoCtl, "none")
    /\ UNCHANGED <<readers, writers, fdt, fs, rfds, trace, badClose, reaped, nreq, steps,
                   charSigned, env>>

\* main, lines 609-615: the next ready reader; a handler whose window loop never
\* ends leaves the server inside it
HandleReader ==
    /\ pc = "readers"
    /\ Ready(readers) # {}
    /\ LET i == First(Ready(readers))
           client == readers[i]
       IN  \E d \in Dgrams(client) :
              LET r == handle_reader(World, client, d, charSigned)
              IN  /\ Apply(IF r.hung THEN r.w
                           ELSE IF r.ret <= 0 THEN client_close_and_free(r.w, client)
                           ELSE r.w)
                  /\ cursor' = IF r.ret <= 0 THEN i ELSE i + 1
                  /\ pc' = IF r.hung THEN "hung" ELSE "readers"
                  /\ reaped' = IF r.ret <= 0 /\ ~r.hung
                                THEN Append(reaped, client.x) ELSE reaped
                  /\ ev' = Event("reader", client, d, r.ret, NoReq, NoCtl, "none")
    /\ UNCHANGED <<rfds, nreq, steps, charSigned, env>>

ReadersDone ==
    /\ pc = "readers"
    /\ Ready(readers) = {}
    /\ pc' = "service"
    /\ cursor' = 1
    /\ ev' = Event("readersdone", NoClient, NoDgram, 0, NoReq, NoCtl, "none")
    /\ UNCHANGED <<readers, writers, fdt, fs, rfds, trace, badClose, reaped, nreq, steps,
                   charSigned, env>>

\* main, line 617: the service socket is not readable
ServiceIdle ==
    /\ pc = "service"
    /\ ServiceFd \notin rfds
    /\ pc' = "select"
    /\ ev' = Event("idle", NoClient, NoDgram, 0, NoReq, NoCtl, "none")
    /\ UNCHANGED <<readers, writers, fdt, fs, rfds, cursor, trace, badClose, reaped, nreq,
                   steps, charSigned, env>>

\* main, lines 619-625 and 629-633: recvfrom fails, or qrtr_decode does:
\* main returns
ServiceFails ==
    /\ pc = "service"
    /\ ServiceFd \in rfds
    /\ \E k \in env.misc \cap {"recvfail", "decodefail"} :
          ev' = Event(k, NoClient, NoDgram, -1, NoReq, NoCtl, "none")
    /\ pc' = "exited"
    /\ UNCHANGED <<readers, writers, fdt, fs, rfds, cursor, trace, badClose, reaped, nreq,
                   steps, charSigned, env>>

\* The writers the control switch frees: for BYE those whose sq_node is the
\* node of the datagram's source address, for DEL_CLIENT those whose whole
\* address equals the datagram's source address (memcmp with sq)
Cancelled(ctl, list) ==
    SelectSeq(list, LAMBDA c :
        \/ ctl.type = QRTR_TYPE_BYE /\ c.sq[1] = ctl.src[1]
        \/ ctl.type = QRTR_TYPE_DEL_CLIENT /\ c.sq = ctl.src)

RECURSIVE FreeAll(_, _)
FreeAll(w, cs) ==
    IF cs = <<>> THEN w ELSE FreeAll(client_close_and_free(w, Head(cs)), Tail(cs))

\* main, lines 627-650: a datagram from the control port
ServiceControl ==
    /\ pc = "service"
    /\ ServiceFd \in rfds
    /\ \E ctl \in env.ctl :
          /\ ctl.src[2] = QRTR_PORT_CTRL
          /\ LET hit == Cancelled(ctl, writers)
             IN  /\ Apply(FreeAll(World, hit))
                 /\ reaped' = reaped \o [i \in 1..Len(hit) |-> hit[i].x]
                 /\ ev' = Event("control", NoClient, NoDgram, Len(hit), NoReq, ctl, "none")
    /\ pc' = "select"
    /\ UNCHANGED <<rfds, cursor, nreq, steps, charSigned, env>>

\* main, lines 652-653 and 664-671: a datagram shorter than an opcode, a stray
\* ERROR, an unhandled opcode
ServiceOther ==
    /\ pc = "service"
    /\ ServiceFd \in rfds
    /\ \E k \in env.misc \cap {"short", "error", "other"} :
          ev' = Event(k, NoClient, NoDgram, 0, NoReq, NoCtl, "none")
    /\ pc' = "select"
    /\ UNCHANGED <<readers, writers, fdt, fs, rfds, cursor, trace, badClose, reaped, nreq,
                   steps, charSigned, env>>

\* a request as the history keeps it: msg is the file name
ReqPkt(req) == Pkt(req.op, 0, <<>>, req.filename, req.opts)

\* main, lines 657-659: handle_rrq
ServiceRRQ ==
    /\ pc = "service"
    /\ ServiceFd \in rfds
    /\ nreq < MaxRequests
    /\ \E req \in env.reqs, flt \in env.flts :
          /\ req.op = OP_RRQ
          /\ req.src[2] # QRTR_PORT_CTRL
          /\ Apply(handle_rrq(Rx(World, nreq + 1, ServiceFd, req.src, ReqPkt(req)),
                              nreq + 1, req, req.src, flt))
          /\ ev' = Event("rrq", NoClient, NoDgram, 0, req, NoCtl, flt)
    /\ nreq' = nreq + 1
    /\ pc' = "select"
    /\ UNCHANGED <<rfds, cursor, reaped, steps, charSigned, env>>

\* main, lines 660-663: handle_wrq
ServiceWRQ ==
    /\ pc = "service"
    /\ ServiceFd \in rfds
    /\ nreq < MaxRequests
    /\ \E req \in env.reqs, flt \in env.flts :
          /\ req.op = OP_WRQ
          /\ req.src[2] # QRTR_PORT_CTRL
          /\ Apply(handle_wrq(Rx(World, nreq + 1, ServiceFd, req.src, ReqPkt(req)),
                              nreq + 1, req, req.src, flt))
          /\ ev' = Event("wrq", NoClient, NoDgram, 0, req, NoCtl, flt)
    /\ nreq' = nreq + 1
    /\ pc' = "select"
    /\ UNCHANGED <<rfds, cursor, reaped, steps, charSigned, env>>

Next ==
    \/ Select
    \/ SelectFails
    \/ HandleWriter
    \/ WritersDone
    \/ HandleReader
    \/ ReadersDone
    \/ ServiceIdle
    \/ ServiceFails
    \/ ServiceControl
    \/ ServiceOther
    \/ ServiceRRQ
    \/ ServiceWRQ

Spec == Init /\ [][Next]_vars

TypeOK ==
    /\ pc \in {"select", "writers", "readers", "service", "exited", "hung"}
    /\ rfds \subseteq FdRange
    /\ badClose \in Nat


\* ------------------------------------------------- reading the history

Registry == readers \o writers
RegistryNext == readers' \o writers'
Registered(x) == \E i \in 1..Len(Registry) : Registry[i].x = x
RegisteredNext(x) == \E i \in 1..Len(RegistryNext) : RegistryNext[i].x = x

Xfers == 1..nreq

\* the entries this step added, and the packets it sent
NewEntries == SubSeq(trace', Len(trace) + 1, Len(trace'))
NewSent == SelectSeq(NewEntries, LAMBDA e : e.dir = "tx")

\* the request that began transfer x, and the options it set
ReqOf(x) ==
    LET i == CHOOSE j \in 1..Len(trace) :
                trace[j].x = x /\ trace[j].dir = "rx" /\ trace[j].sock = ServiceFd
    IN  trace[i]
ReqOfNext(x) ==
    LET i == CHOOSE j \in 1..Len(trace') :
                trace'[j].x = x /\ trace'[j].dir = "rx" /\ trace'[j].sock = ServiceFd
    IN  trace'[i]
ParamsOf(r) == parse_options(r.pkt.opts, Defaults)
OptNames(opts) == { opts[i][1] : i \in 1..Len(opts) }

\* what transfer x sent, and what its handler received
SentBy(x) == SelectSeq(trace, LAMBDA e : e.x = x /\ e.dir = "tx")
DataSentBy(x) == SelectSeq(SentBy(x), LAMBDA e : e.pkt.op = OP_DATA)
ReceivedBy(x) ==
    SelectSeq(trace, LAMBDA e : e.x = x /\ e.dir = "rx" /\ e.sock # ServiceFd)
Payloads(es) == [i \in 1..Len(es) |-> es[i].pkt.data]

\* x was set up: a client was registered for it (it then sent, or had nothing
\* to send only as a writer without options)
SetUp(x) == Registered(x) \/ SentBy(x) # <<>> \/ ReceivedBy(x) # <<>>

\* The peer of read transfer x acknowledged the highest block it had received
\* after each window, and sent nothing else: every datagram the handler got is
\* an Ack from the peer, follows something the server sent, and carries the
\* number of the last Data sent before it (0 when none).
LastDataBefore(x, i) ==
    LET D == { j \in 1..(i - 1) :
                 trace[j].x = x /\ trace[j].dir = "tx" /\ trace[j].pkt.op = OP_DATA }
    IN  IF D = {} THEN 0
        ELSE trace[CHOOSE j \in D : \A k \in D : k <= j].pkt.block
PrevOf(x, i) ==
    LET P == { j \in 1..(i - 1) : trace[j].x = x }
    IN  CHOOSE j \in P : \A k \in P : k <= j
WellAcked(x) ==
    \A i \in 1..Len(trace) :
        (trace[i].x = x /\ trace[i].dir = "rx" /\ trace[i].sock # ServiceFd) =>
            /\ trace[i].pkt.op = OP_ACK
            /\ trace[i].src = ReqOf(x).src
            /\ trace[PrevOf(x, i)].dir = "tx"
            /\ trace[i].pkt.block = LastDataBefore(x, i)

\* ------------------------------------------------------------- claims

\* C1: a datagram that reaches the reader or writer handler from an address
\* other than the client's peer is discarded: nothing is sent, no file and no
\* descriptor changes, and the client stays registered as it was.
C1_SpoofedDatagramDiscarded ==
    [][ (ev'.kind \in {"reader", "writer"} /\ ~ev'.d.err /\ ev'.d.src # ev'.c.sq)
        => (NewSent = <<>> /\ fs' = fs /\ fdt' = fdt
            /\ readers' = readers /\ writers' = writers) ]_vars

\* C2: a finished read transfer with rsize > 0, blksize >= 1, wsize >= 1, on a
\* file of at least seek + rsize bytes, whose peer acknowledged the highest block
\* after each window, delivered rsize bytes in all, the last Data packet carrying
\* rsize mod blksize of them.
C2_RsizeTruncation ==
    \A x \in Xfers :
        LET r == ReqOf(x)
            p == ParamsOf(r)
            D == DataSentBy(x)
        IN  (/\ r.pkt.op = OP_RRQ /\ SetUp(x) /\ ~Registered(x)
             /\ p.rsize > 0 /\ p.blksize >= 1 /\ p.wsize >= 1
             /\ BLen(fs[r.pkt.msg].data) >= p.seek + p.rsize
             /\ WellAcked(x) /\ ReceivedBy(x) # <<>>)
            => (/\ SumLen(Payloads(D)) = p.rsize
                /\ D # <<>>
                /\ BLen(D[Len(D)].pkt.data) = p.rsize % p.blksize)

\* C3: answering a non-terminal Ack(n), the reader handler sends Data packets
\* numbered n+1, n+2, ... in order, at most wsize of them, and none after the
\* block cut short for rsize or after a block whose read returned no byte.
C3_WindowAfterAck ==
    [][ (/\ ev'.kind = "reader" /\ ~ev'.d.err /\ ev'.d.src = ev'.c.sq
         /\ ev'.d.pkt.op = OP_ACK /\ ev'.ret = 1 /\ pc' # "hung")
        => LET n == ev'.d.pkt.block
               c == ev'.c
               S == NewSent
           IN  /\ Len(S) <= c.wsize
               /\ \A k \in 1..Len(S) :
                     /\ S[k].pkt.op = OP_DATA
                     /\ S[k].pkt.block = (n + k) % U16
                     /\ k < Len(S) =>
                           /\ BLen(S[k].pkt.data) # 0
                           /\ ~(c.rsize > 0 /\ (n + k) * c.blksize > c.rsize) ]_vars

\* C4: the payload of every Data packet sent, numbered i, is the file's bytes
\* from offset seek + (i-1)*blksize on (i-1 taken modulo 2^16, as block numbers
\* are on the wire).
C4_SeekApplied ==
    [][ \A k \in 1..Len(NewSent) :
          LET e == NewSent[k]
              r == ReqOfNext(e.x)
              p == ParamsOf(r)
              off == p.seek + ((e.pkt.block - 1) % U16) * p.blksize
          IN  e.pkt.op = OP_DATA =>
                /\ BLen(e.pkt.data) <= p.blksize
                /\ e.pkt.data = BTake(BDrop(fs[r.pkt.msg].data, off), BLen(e.pkt.data)) ]_vars

\* C4's case: a Data packet past the first, with bytes in it, of a transfer
\* that asked for a seek
C4_Witness ==
    \E i \in 1..Len(trace) :
        /\ trace[i].dir = "tx" /\ trace[i].pkt.op = OP_DATA
        /\ trace[i].pkt.block >= 2 /\ trace[i].pkt.data # <<>>
        /\ ParamsOf(ReqOf(trace[i].x)).seek > 0

\* C5: the OptionAck answering a request with options names exactly the
\* recognised options the request carries (tsize may be left out), each with the
\* value the server applied.
Applied(r, name) ==
    LET p == ParamsOf(r)
    IN  CASE name = "blksize" -> p.blksize
          [] name = "timeoutms" -> p.timeoutms
          [] name = "wsize" -> p.wsize
          [] name = "rsize" -> p.rsize
          [] name = "seek" -> p.seek
          [] OTHER -> -1

C5_OackEchoesRequest ==
    \A i \in 1..Len(trace) :
        (trace[i].dir = "tx" /\ trace[i].pkt.op = OP_OACK) =>
            LET r == ReqOf(trace[i].x)
                asked == OptNames(r.pkt.opts) \cap KnownOptions
                got == trace[i].pkt.opts
            IN  /\ OptNames(got) \subseteq asked
                /\ (asked \ {"tsize"}) \subseteq OptNames(got)
                /\ \A k \in 1..Len(got) :
                      got[k][1] # "tsize" => got[k][2] = Applied(r, got[k][1])

\* C6: a Data(b, payload) from the writer's peer, written without error, leaves
\* the file with the payload at the position the descriptor had, is answered by
\* Ack(b) alone, and reaps the writer in this step when the payload is shorter
\* than 512 bytes, keeps it registered when it is exactly 512.
C6_WriterDataAcked ==
    [][ (/\ ev'.kind = "writer" /\ ~ev'.d.err /\ ev'.d.src = ev'.c.sq
         /\ ev'.d.pkt.op = OP_DATA /\ ev'.d.ioFail = 0)
        => LET c == ev'.c
               payload == ev'.d.pkt.data
               name == fdt[c.fd].name
               pos == fdt[c.fd].pos
               old == fs[name].data
           IN  /\ fs'[name].data =
                     BCat(BCat(BTake(old, pos), payload), BDrop(old, pos + BLen(payload)))
               /\ Len(NewSent) = 1
               /\ NewSent[1].sock = c.sock
               /\ NewSent[1].pkt = AckPkt(ev'.d.pkt.block)
               /\ BLen(payload) < 512 => ~RegisteredNext(c.x)
               /\ BLen(payload) = 512 => RegisteredNext(c.x) ]_vars

\* C7: what a download delivers is what the upload of the same name carried:
\* the upload's peer sent blocks 1, 2, ... of blksize bytes and a last, shorter
\* one, into a file that did not exist; the download, begun after that with the
\* same blksize, got as far as its short last block, every window acknowledged.
RoundTripSizes == {8, 512, 1428, 8192}
Uploaded(u) == BConcat(Payloads(ReceivedBy(u)))
Downloaded(d) == BConcat(Payloads(DataSentBy(d)))
IndexOfLast(x) ==
    LET P == { j \in 1..Len(trace) : trace[j].x = x }
    IN  CHOOSE j \in P : \A k \in P : k <= j
IndexOfReq(x) ==
    CHOOSE j \in 1..Len(trace) :
        trace[j].x = x /\ trace[j].dir = "rx" /\ trace[j].sock = ServiceFd
UploadDone(u, B) ==
    LET R == ReceivedBy(u)
    IN  /\ R # <<>>
        /\ \A k \in 1..Len(R) :
              /\ R[k].pkt.op = OP_DATA
              /\ R[k].src = ReqOf(u).src
              /\ R[k].pkt.block = k
              /\ IF k < Len(R) THEN BLen(R[k].pkt.data) = B
                 ELSE BLen(R[k].pkt.data) < B
DownloadDone(d, B) ==
    LET D == DataSentBy(d)
    IN  /\ D # <<>>
        /\ WellAcked(d)
        /\ \A k \in 1..Len(D) : D[k].pkt.block = k
        /\ BLen(D[Len(D)].pkt.data) < B

C7_RoundTrip ==
    \A u \in Xfers : \A d \in Xfers :
        LET ru == ReqOf(u)
            rd == ReqOf(d)
            B == ParamsOf(ru).blksize
        IN  (/\ ru.pkt.op = OP_WRQ /\ rd.pkt.op = OP_RRQ
             /\ ru.pkt.msg = "b" /\ rd.pkt.msg = "b"
             /\ B \in RoundTripSizes /\ ParamsOf(rd).blksize = B
             /\ ParamsOf(rd).seek = 0
             /\ \A o \in Xfers : (o # u /\ ReqOf(o).pkt.op = OP_WRQ) => ReceivedBy(o) = <<>>
             /\ UploadDone(u, B)
             /\ IndexOfLast(u) < IndexOfReq(d)
             /\ DownloadDone(d, B))
            => Downloaded(d) = Uploaded(u)

\* C8: the registered clients are distinct, each in one registry, each holding
\* its own open socket and open file; a client leaves its registry only by being
\* reaped, once, and the step that reaps it closes its socket and its file, both
\* open until then, with no close of a descriptor that is not open.
Ownership ==
    /\ \A i \in 1..Len(Registry) : \A j \in 1..Len(Registry) :
          i # j => /\ Registry[i].x # Registry[j].x
                   /\ {Registry[i].sock, Registry[i].fd}
                        \cap {Registry[j].sock, Registry[j].fd} = {}
    /\ \A i \in 1..Len(Registry) :
          /\ Registry[i].sock # Registry[i].fd
          /\ IsOpen(fdt, Registry[i].sock) /\ fdt[Registry[i].sock].kind = "sock"
          /\ IsOpen(fdt, Registry[i].fd) /\ fdt[Registry[i].fd].kind = "file"
    /\ badClose = 0

NewReaped ==
    IF ev'.kind = "select" THEN <<>>
    ELSE SubSeq(reaped', Len(reaped) + 1, Len(reaped'))

ReapCloses ==
    /\ \A i \in 1..Len(readers) :
          LET c == readers[i]
          IN  IF \E j \in 1..Len(readers') : readers'[j] = c
              THEN /\ fdt'[c.sock] = fdt[c.sock]
                   /\ fdt'[c.fd].kind = "file"
                   /\ \A k \in 1..Len(NewReaped) : NewReaped[k] # c.x
              ELSE /\ Cardinality({k \in 1..Len(NewReaped) : NewReaped[k] = c.x}) = 1
                   /\ ~RegisteredNext(c.x)
                   /\ IsOpen(fdt, c.sock) /\ ~IsOpen(fdt', c.sock)
                   /\ IsOpen(fdt, c.fd) /\ ~IsOpen(fdt', c.fd)
                   /\ badClose' = badClose
    /\ \A i \in 1..Len(writers) :
          LET c == writers[i]
          IN  IF \E j \in 1..Len(writers') : writers'[j] = c
              THEN /\ fdt'[c.sock] = fdt[c.sock]
                   /\ fdt'[c.fd].kind = "file"
                   /\ \A k \in 1..Len(NewReaped) : NewReaped[k] # c.x
              ELSE /\ Cardinality({k \in 1..Len(NewReaped) : NewReaped[k] = c.x}) = 1
                   /\ ~RegisteredNext(c.x)
                   /\ IsOpen(fdt, c.sock) /\ ~IsOpen(fdt', c.sock)
                   /\ IsOpen(fdt, c.fd) /\ ~IsOpen(fdt', c.fd)
                   /\ badClose' = badClose
    /\ \A k \in 1..Len(NewReaped) : Registered(NewReaped[k])

C8_OneRegistryClosedOnce == []Ownership /\ [][ReapCloses]_vars

\* C8's case: a control event freed a writer in a wake-up in which a handler's
\* terminal status had freed another
C8_Witness ==
    /\ ev.kind = "control" /\ ev.ret >= 1
    /\ Len(reaped) >= 2

\* C9: a BYE naming node N frees, in the step that receives it, every writer
\* whose peer is on node N, and leaves every client of another node where it was:
\* same registry, same parameters, same socket, same file handle.
C9_ByeReapsNode ==
    [][ (ev'.kind = "control" /\ ev'.ctl.type = QRTR_TYPE_BYE)
        => LET N == ev'.ctl.node
           IN  /\ \A i \in 1..Len(writers) :
                     writers[i].sq[1] = N => ~RegisteredNext(writers[i].x)
               /\ \A i \in 1..Len(writers) :
                     writers[i].sq[1] # N =>
                        /\ \E j \in 1..Len(writers') : writers'[j] = writers[i]
                        /\ fdt'[writers[i].sock] = fdt[writers[i].sock]
                        /\ fdt'[writers[i].fd] = fdt[writers[i].fd]
               /\ \A i \in 1..Len(readers) :
                     readers[i].sq[1] # N =>
                        /\ \E j \in 1..Len(readers') : readers'[j] = readers[i]
                        /\ fdt'[readers[i].sock] = fdt[readers[i].sock]
                        /\ fdt'[readers[i].fd] = fdt[readers[i].fd] ]_vars

\* C10: an octet RRQ for which the transfer socket was made and connected and
\* the path translator then fails is answered by one packet only, Error(1, "file
\* not found"), sent on the new transfer socket to the requester, and registers
\* no client.
OpenFailsFor(e) ==
    /\ e.kind = "rrq" /\ IsOctet(e.req.mode)
    /\ e.flt \notin {"sock", "connect"}
    /\ \/ e.flt = "open"
       \/ e.req.filename \notin FileNames
       \/ ~fs[e.req.filename].there

C10_MissingFileError ==
    [][ (OpenFailsFor(ev') /\ LowestFree(fdt) >= 0)
        => /\ Len(NewSent) = 1
           /\ NewSent[1].pkt = ErrorPkt(1, "file not found")
           /\ NewSent[1].sock = LowestFree(fdt)
           /\ NewSent[1].sock # ServiceFd
           /\ fdt'[NewSent[1].sock].kind = "sock"
           /\ fdt'[NewSent[1].sock].peer = ev'.req.src
           /\ readers' = readers /\ writers' = writers ]_vars

\* C10's case: the request for the missing file has been answered
C10_Witness ==
    /\ ev.kind = "rrq" /\ IsOctet(ev.req.mode) /\ ev.flt = "none"
    /\ ev.req.filename = "b" /\ ~fs["b"].there
    /\ trace # <<>> /\ trace[Len(trace)].pkt.op = OP_ERROR

\* C11: an Error packet (of any code), or a packet that is neither Ack nor
\* Error, from a reader's own peer reaps the reader in the step that receives it:
\* nothing is sent in that step, its socket and file are closed, and no packet
\* of that transfer is ever sent after it.
TornDown(i) ==
    /\ trace[i].dir = "rx" /\ trace[i].sock # ServiceFd
    /\ ReqOf(trace[i].x).pkt.op = OP_RRQ
    /\ trace[i].src = ReqOf(trace[i].x).src
    /\ trace[i].pkt.op \notin {OP_ACK, 0}

SilentAfterTeardown ==
    \A i \in 1..Len(trace) :
        TornDown(i) => \A j \in (i + 1)..Len(trace) : trace[j].x # trace[i].x

ReaderProtocolError ==
    (/\ ev'.kind = "reader" /\ ~ev'.d.err /\ ev'.d.src = ev'.c.sq
     /\ ev'.d.pkt.op # OP_ACK)
    => /\ NewSent = <<>>
       /\ ~RegisteredNext(ev'.c.x)
       /\ reaped' = Append(reaped, ev'.c.x)
       /\ ~IsOpen(fdt', ev'.c.sock) /\ ~IsOpen(fdt', ev'.c.fd)

C11_ReaderTornDownSilently == []SilentAfterTeardown /\ [][ReaderProtocolError]_vars

\* C11's case: a reader was reaped on a packet of its peer that is neither an
\* Ack nor an Error
C11_Witness ==
    /\ ev.kind = "reader" /\ ~ev.d.err /\ ev.d.src = ev.c.sq
    /\ ev.d.pkt.op \notin {OP_ACK, OP_ERROR}
    /\ ~Registered(ev.c.x)

\* C12: once the loop runs, nothing that happens in it ends it: not a handler's
\* terminal status, not a failed receive on a transfer socket or on the service
\* socket, not a control datagram that cannot be decoded.
C12_LoopNeverExits ==
    ev.kind \in {"reader", "writer", "control", "recvfail", "decodefail"}
        => pc # "exited"

\* C13: a reader whose request named no wsize answers each Ack(n) of its peer
\* that does not end the transfer with one Data packet, block n+1.
C13_DefaultWindowIsOne ==
    [][ (/\ ev'.kind = "reader" /\ ~ev'.d.err /\ ev'.d.src = ev'.c.sq
         /\ ev'.d.pkt.op = OP_ACK /\ ev'.ret = 1 /\ pc' # "hung"
         /\ "wsize" \notin OptNames(ReqOfNext(ev'.c.x).pkt.opts))
        => /\ Len(NewSent) = 1
           /\ NewSent[1].pkt.op = OP_DATA
           /\ NewSent[1].pkt.block = (ev'.d.pkt.block + 1) % U16 ]_vars

\* C14: a read without rsize (or with rsize 0), wsize >= 1, of a file longer
\* than blksize, whose peer acknowledged every block it received, is not reaped
\* before it has sent a block shorter than blksize, and has by then sent every
\* byte of the file from seek on.
C14_NoRsizeMeansWholeFile ==
    \A x \in Xfers :
        LET r == ReqOf(x)
            p == ParamsOf(r)
            D == DataSentBy(x)
            file == fs[r.pkt.msg].data
        IN  (/\ r.pkt.op = OP_RRQ /\ SetUp(x) /\ ~Registered(x)
             /\ p.rsize = 0 /\ p.wsize >= 1 /\ p.blksize >= 1
             /\ BLen(file) > p.blksize
             /\ WellAcked(x) /\ ReceivedBy(x) # <<>>)
            => /\ D # <<>>
               /\ BLen(D[Len(D)].pkt.data) < p.blksize
               /\ BConcat(Payloads(D)) = BDrop(file, p.seek)

\* C15: the setup that registers a client sends, on the client's socket, one
\* OptionAck when the request carried options, one Data block 1 when an RRQ
\* carried none, nothing when a WRQ carried none. Afterwards a transfer sends
\* only in the step that handles a datagram received on its socket, Data only
\* in answer to an Ack of the peer; no OptionAck ever answers a request without
\* options and a writer never sends Data.
NoOackWithoutOptions ==
    \A i \in 1..Len(trace) :
        (trace[i].dir = "tx" /\ trace[i].pkt.op = OP_OACK)
            => ReqOf(trace[i].x).pkt.opts # <<>>

WritersSendNoData ==
    \A i \in 1..Len(trace) :
        (trace[i].dir = "tx" /\ trace[i].pkt.op = OP_DATA)
            => ReqOf(trace[i].x).pkt.op = OP_RRQ

FirstPacketAtSetup ==
    (ev'.kind \in {"rrq", "wrq"} /\ Len(RegistryNext) = Len(Registry) + 1)
    => LET req == ev'.req
           c == IF ev'.kind = "rrq" THEN readers'[Len(readers')]
                ELSE writers'[Len(writers')]
       IN  /\ c.x = nreq'
           /\ \A k \in 1..Len(NewSent) : NewSent[k].sock = c.sock /\ NewSent[k].x = c.x
           /\ req.opts # <<>> =>
                 Len(NewSent) = 1 /\ NewSent[1].pkt.op = OP_OACK
           /\ (req.opts = <<>> /\ req.op = OP_RRQ) =>
                 /\ Len(NewSent) = 1
                 /\ NewSent[1].pkt.op = OP_DATA /\ NewSent[1].pkt.block = 1
           /\ (req.opts = <<>> /\ req.op = OP_WRQ) => NewSent = <<>>

SentOnlyOnReceipt ==
    \A k \in 1..Len(NewSent) :
        \/ ev'.kind \in {"rrq", "wrq"} /\ NewSent[k].x = nreq'
        \/ /\ ev'.kind \in {"reader", "writer"} /\ ~ev'.d.err
           /\ ev'.c.x = NewSent[k].x
           /\ NewSent[k].pkt.op = OP_DATA =>
                 /\ ev'.kind = "reader"
                 /\ ev'.d.pkt.op = OP_ACK /\ ev'.d.src = ev'.c.sq

C16_AckAtRsizeCompletes ==
    [][ (/\ ev'.kind = "reader" /\ ~ev'.d.err /\ ev'.d.src = ev'.c.sq
         /\ ev'.d.pkt.op = OP_ACK
         /\ ev'.c.rsize > 0
         /\ ev'.d.pkt.block * ev'.c.blksize >= ev'.c.rsize)
        => /\ NewSent = <<>>
           /\ ~RegisteredNext(ev'.c.x)
           /\ reaped' = Append(reaped, ev'.c.x) ]_vars

\* C17: a DEL_CLIENT naming the address (node, port) cancels, in the step that
\* receives it, every registered client whose peer address is (node, port): it
\* leaves its registry and its socket and file are closed; every other client
\* stays as it was.
C17_DelClientCancels ==
    [][ (ev'.kind = "control" /\ ev'.ctl.type = QRTR_TYPE_DEL_CLIENT)
        => LET addr == <<ev'.ctl.node, ev'.ctl.port>>
           IN  \A i \in 1..Len(Registry) :
                  LET c == Registry[i]
                  IN  IF c.sq = addr
                      THEN /\ ~RegisteredNext(c.x)
                           /\ ~IsOpen(fdt', c.sock) /\ ~IsOpen(fdt', c.fd)
                      ELSE /\ \E j \in 1..Len(RegistryNext) : RegistryNext[j] = c
                           /\ fdt'[c.sock] = fdt[c.sock]
                           /\ fdt'[c.fd] = fdt[c.fd] ]_vars

\* C18: a file read that fails while a reader sends its window, or a file write
\* that fails while a writer handles a Data packet, tears the transfer down: the
\* client is reaped in that step and no Error packet is sent.
ReadFails(c, d) ==
    LET last == Decode16(d.pkt.block, charSigned)
    IN  /\ d.pkt.op = OP_ACK /\ d.ioFail # 0
        /\ ~RsizeDone(c, last)
        /\ Window(World, c, last, last, 0, d.ioFail).w.trace
              # Window(World, c, last, last, 0, 0).w.trace

WriteFails(d) == d.pkt.op = OP_DATA /\ d.ioFail # 0

C18_IoFailureTearsDown ==
    [][ (/\ ev'.kind \in {"reader", "writer"} /\ ~ev'.d.err /\ ev'.d.src = ev'.c.sq
         /\ \/ ev'.kind = "reader" /\ ReadFails(ev'.c, ev'.d)
            \/ ev'.kind = "writer" /\ WriteFails(ev'.d))
        => /\ ~RegisteredNext(ev'.c.x)
           /\ reaped' = Append(reaped, ev'.c.x)
           /\ \A k \in 1..Len(NewSent) : NewSent[k].pkt.op # OP_ERROR ]_vars

\* C19: in every state the open transfer sockets and file handles are exactly
\* those owned by the registered clients: whatever a setup opened is owned by a
\* registered client or has been closed again, on success and on every failure.
OpenTransferFds == { f \in FdRange : f > ServiceFd /\ IsOpen(fdt, f) }
OwnedFds == UNION { {Registry[i].sock, Registry[i].fd} : i \in 1..Len(Registry) }

C19_NoLeakOnSetup == OpenTransferFds = OwnedFds

\* C20: every run of the reader handler ends, having sent at most wsize Data
\* packets, whatever the Ack number and wsize, also when the block counter
\* passes 65535 inside the window.
C20_ReaderHandlerTerminates ==
    [][ ev'.kind = "reader"
        => /\ pc' # "hung"
           /\ Len(SelectSeq(NewSent, LAMBDA e : e.pkt.op = OP_DATA)) <= ev'.c.wsize ]_vars

=============================================================================
